---------------------------- MODULE Spec2Model ----------------------------
(***************************************************************************)
(* ncs: a facade over the mvnc accelerator driver (src/ncs.h, src/ncs.cpp). *)
(* Every ncs_* function casts its arguments and delegates to one nc*        *)
(* driver call, returning int(status).                                      *)
(*                                                                          *)
(* The driver itself (mvnc.h) is an external library.  It is modelled here  *)
(* as a stand-in with a handle table and FIFO queues that echo elements in  *)
(* order; the facade functions are translated from src/ncs.cpp.             *)
(***************************************************************************)
EXTENDS Integers, Sequences, FiniteSets, TLC

(***************************************************************************)
(* Bounds of the model.                                                     *)
(***************************************************************************)
\* objects of one kind (device, graph, FIFO) the driver's handle table holds
MaxObjs == 2
\* physical devices the stand-in driver knows: valid indices 0..NumDevices-1
NumDevices == 2
\* distinct tensors (each with its own user tag) a caller writes
NumTensors == 2
\* capacity in bytes of the buffer of the caller's options-data structure
DataCap == 4
\* bytes of an option value as the stand-in driver writes it
ValLen == 2

NULL == 0

(***************************************************************************)
(* Driver enumerations (mvnc.h).                                            *)
(***************************************************************************)
ncStatus_t ==
    [ NC_OK |-> 0, NC_BUSY |-> -1, NC_ERROR |-> -2, NC_OUT_OF_MEMORY |-> -3,
      NC_DEVICE_NOT_FOUND |-> -4, NC_INVALID_PARAMETERS |-> -5,
      NC_TIMEOUT |-> -6, NC_MVCMD_NOT_FOUND |-> -7, NC_NOT_ALLOCATED |-> -8,
      NC_UNAUTHORIZED |-> -9, NC_UNSUPPORTED_GRAPH_FILE |-> -10,
      NC_UNSUPPORTED_CONFIGURATION_FILE |-> -11,
      NC_UNSUPPORTED_FEATURE |-> -12, NC_MYRIAD_ERROR |-> -13,
      NC_INVALID_DATA_LENGTH |-> -14, NC_INVALID_HANDLE |-> -15 ]

StatusNames == DOMAIN ncStatus_t
\* what the stand-in driver may report for a destroy of a null reference
Outcomes == {"NC_OK", "NC_INVALID_HANDLE"}

ncFifoType_t == {"NC_FIFO_HOST_RO", "NC_FIFO_HOST_WO"}

(***************************************************************************)
(* The caller's memory.  A void** or an out-pointer argument is the address *)
(* of one of these cells; the driver writes through it.  The handle         *)
(* references live between calls; the other cells are the buffers the       *)
(* caller sets up for one call and reads after it.                          *)
(***************************************************************************)
RefAddrs == {"deviceHandle", "graphHandle", "inFifoHandle", "outFifoHandle"}
FifoAddrs == {"inFifoHandle", "outFifoHandle"}
LocalAddrs == {"optionsData.data", "optionsData.length", "inputTensorLength",
               "outputData", "outputDataLen", "userParam"}
Addrs == RefAddrs \cup LocalAddrs

Zeros == [i \in 1..DataCap |-> 0]
NoLocals == [a \in LocalAddrs |->
               CASE a = "optionsData.data" -> Zeros
                 [] a = "outputData" -> <<>>
                 [] OTHER -> 0]

\* the elements a caller writes: a tensor and the user tag that goes with it
Elems == {[tensor |-> <<v>>, user |-> 10 + v] : v \in 1..NumTensors}

\* the driver keeps one table per kind of object; a handle is an address in
\* one of them (0 is NULL)
Base(kind) ==
    CASE kind = "device" -> 0 [] kind = "graph" -> MaxObjs [] kind = "fifo" -> 2 * MaxObjs
Pool(kind) == (Base(kind) + 1)..(Base(kind) + MaxObjs)
Handles == 1..(3 * MaxObjs)
Free == [kind |-> "free"]

\* the object a handle value points at, as the stand-in driver sees it
Obj(W, h) == IF h \in Handles THEN W.heap[h] ELSE Free
Kind(W, h) == Obj(W, h).kind
IsFree(W, h) == Kind(W, h) = "free"
FreeHandles(W, kind) == {h \in Pool(kind) : IsFree(W, h)}
NewHandle(W, kind) ==
    CHOOSE h \in FreeHandles(W, kind) : \A g \in FreeHandles(W, kind) : h <= g

\* what a driver call leaves behind: the call as the driver received it
Logged(W, fn, args, status) ==
    [W EXCEPT !.calls = Append(@, [fn |-> fn, args |-> args, status |-> status]),
              !.status = status]

(***************************************************************************)
(* The conversion int(s) of an ncStatus_t enumerator.                       *)
(***************************************************************************)
int(s) == ncStatus_t[s]

(***************************************************************************)
(* Stand-in driver: device calls.  A call that cannot succeed changes       *)
(* nothing and reports why.                                                 *)
(***************************************************************************)
Opened(W, deviceHandle) ==
    Kind(W, deviceHandle) = "device" /\ Obj(W, deviceHandle).state = "opened"

ncDeviceCreate(W, idx, deviceHandle) ==
    LET args == [idx |-> idx, deviceHandle |-> deviceHandle]
        status == CASE idx \notin 0..(NumDevices - 1) -> "NC_DEVICE_NOT_FOUND"
                    [] FreeHandles(W, "device") = {} -> "NC_OUT_OF_MEMORY"
                    [] OTHER -> "NC_OK" IN
    IF status = "NC_OK"
    THEN LET h == NewHandle(W, "device") IN
         Logged([W EXCEPT !.heap[h] = [kind |-> "device", state |-> "created"],
                          !.mem[deviceHandle] = h],
                "ncDeviceCreate", args, status)
    ELSE Logged(W, "ncDeviceCreate", args, status)

ncDeviceOpen(W, deviceHandle) ==
    LET args == [deviceHandle |-> deviceHandle]
        status == CASE Kind(W, deviceHandle) # "device" -> "NC_INVALID_HANDLE"
                    [] Obj(W, deviceHandle).state = "opened" -> "NC_BUSY"
                    [] Obj(W, deviceHandle).state = "closed" -> "NC_ERROR"
                    [] OTHER -> "NC_OK" IN
    IF status = "NC_OK"
    THEN Logged([W EXCEPT !.heap[deviceHandle].state = "opened"],
                "ncDeviceOpen", args, status)
    ELSE Logged(W, "ncDeviceOpen", args, status)

ncDeviceClose(W, deviceHandle) ==
    LET args == [deviceHandle |-> deviceHandle]
        status == CASE Kind(W, deviceHandle) # "device" -> "NC_INVALID_HANDLE"
                    [] ~Opened(W, deviceHandle) -> "NC_INVALID_PARAMETERS"
                    [] OTHER -> "NC_OK" IN
    IF status = "NC_OK"
    THEN Logged([W EXCEPT !.heap[deviceHandle].state = "closed"],
                "ncDeviceClose", args, status)
    ELSE Logged(W, "ncDeviceClose", args, status)

\* a destroy of a live handle frees it and nulls the reference; what a destroy
\* of a null reference reports is the driver's choice e
Destroy(W, fn, kind, args, ref, e) ==
    LET h == W.mem[ref] IN
    IF Kind(W, h) = kind
    THEN Logged([W EXCEPT !.heap[h] = Free, !.mem[ref] = NULL], fn, args, "NC_OK")
    ELSE Logged(W, fn, args, e)

ncDeviceDestroy(W, deviceHandle, e) ==
    Destroy(W, "ncDeviceDestroy", "device", [deviceHandle |-> deviceHandle],
            deviceHandle, e)

\* the bytes of an option value: the value, then zero bytes up to ValLen
ValueBytes(v) == [i \in 1..ValLen |-> IF i = 1 THEN v ELSE 0]
\* a buffer after the driver wrote bytes at its start
Written(buf, bytes) ==
    [i \in 1..Len(buf) |-> IF i <= Len(bytes) THEN bytes[i] ELSE buf[i]]

\* get-option, shared by the device and FIFO calls: option 0 is readable, any
\* other is not; a buffer shorter than the value gets the needed length back
GetOption(W, fn, args, usable, option, v, data, dataLength) ==
    CASE ~usable -> Logged(W, fn, args, "NC_INVALID_HANDLE")
      [] option # 0 -> Logged(W, fn, args, "NC_UNSUPPORTED_FEATURE")
      [] W.mem[dataLength] < ValLen ->
            Logged([W EXCEPT !.mem[dataLength] = ValLen],
                   fn, args, "NC_INVALID_DATA_LENGTH")
      [] OTHER ->
            Logged([W EXCEPT !.mem[data] = Written(@, ValueBytes(v)),
                             !.mem[dataLength] = ValLen],
                   fn, args, "NC_OK")

DeviceStateCode(o) ==
    CASE o.state = "created" -> 1 [] o.state = "opened" -> 2 [] OTHER -> 3

ncDeviceGetOption(W, deviceHandle, option, data, dataLength) ==
    LET args == [deviceHandle |-> deviceHandle, option |-> option,
                 data |-> data, dataLength |-> dataLength,
                 lengthOnEntry |-> W.mem[dataLength]]
        o == Obj(W, deviceHandle) IN
    GetOption(W, "ncDeviceGetOption", args, o.kind = "device", option,
              IF o.kind = "device" THEN DeviceStateCode(o) ELSE 0,
              data, dataLength)

(***************************************************************************)
(* Stand-in driver: graph calls.                                            *)
(***************************************************************************)
GoodBuffer(graphBuffer, graphBufferLength) ==
    graphBufferLength > 0 /\ graphBufferLength = Len(graphBuffer)

\* why a graph cannot be allocated on a device, or NC_OK
CanAllocateGraph(W, deviceHandle, graphHandle, graphBuffer, graphBufferLength) ==
    CASE Kind(W, deviceHandle) # "device" -> "NC_INVALID_HANDLE"
      [] Kind(W, graphHandle) # "graph" -> "NC_INVALID_HANDLE"
      [] ~Opened(W, deviceHandle) -> "NC_DEVICE_NOT_FOUND"
      [] Obj(W, graphHandle).state # "created" -> "NC_INVALID_PARAMETERS"
      [] ~GoodBuffer(graphBuffer, graphBufferLength) -> "NC_UNSUPPORTED_GRAPH_FILE"
      [] OTHER -> "NC_OK"

ncGraphCreate(W, name, graphHandle) ==
    LET args == [name |-> name, graphHandle |-> graphHandle]
        status == CASE name = "" -> "NC_INVALID_PARAMETERS"
                    [] FreeHandles(W, "graph") = {} -> "NC_OUT_OF_MEMORY"
                    [] OTHER -> "NC_OK" IN
    IF status = "NC_OK"
    THEN LET h == NewHandle(W, "graph") IN
         Logged([W EXCEPT !.heap[h] = [kind |-> "graph", state |-> "created"],
                          !.mem[graphHandle] = h],
                "ncGraphCreate", args, status)
    ELSE Logged(W, "ncGraphCreate", args, status)

ncGraphAllocate(W, deviceHandle, graphHandle, graphBuffer, graphBufferLength) ==
    LET args == [deviceHandle |-> deviceHandle, graphHandle |-> graphHandle,
                 graphBuffer |-> graphBuffer,
                 graphBufferLength |-> graphBufferLength]
        status == CanAllocateGraph(W, deviceHandle, graphHandle, graphBuffer,
                                   graphBufferLength) IN
    IF status = "NC_OK"
    THEN Logged([W EXCEPT !.heap[graphHandle].state = "allocated"],
                "ncGraphAllocate", args, status)
    ELSE Logged(W, "ncGraphAllocate", args, status)

AllocatedFifo(type, numElem, dataType, dev) ==
    [kind |-> "fifo", state |-> "allocated", type |-> type, dataType |-> dataType,
     numElem |-> numElem, dev |-> dev, queue |-> <<>>]

ncGraphAllocateWithFifosEx(W, deviceHandle, graphHandle, graphBuffer, graphBufferLength, inFifoHandle, inFifoType, inNumElem, inDataType, outFifoHandle, outFifoType, outNumElem, outDataType) ==
    LET args == [deviceHandle |-> deviceHandle, graphHandle |-> graphHandle,
                 graphBuffer |-> graphBuffer,
                 graphBufferLength |-> graphBufferLength,
                 inFifoHandle |-> inFifoHandle, inFifoType |-> inFifoType,
                 inNumElem |-> inNumElem, inDataType |-> inDataType,
                 outFifoHandle |-> outFifoHandle, outFifoType |-> outFifoType,
                 outNumElem |-> outNumElem, outDataType |-> outDataType]
        can == CanAllocateGraph(W, deviceHandle, graphHandle, graphBuffer,
                                graphBufferLength)
        status == CASE can # "NC_OK" -> can
                    [] inNumElem <= 0 \/ outNumElem <= 0 -> "NC_INVALID_PARAMETERS"
                    [] inFifoHandle = outFifoHandle -> "NC_INVALID_PARAMETERS"
                    [] Cardinality(FreeHandles(W, "fifo")) < 2 -> "NC_OUT_OF_MEMORY"
                    [] OTHER -> "NC_OK" IN
    IF status = "NC_OK"
    THEN LET hi == NewHandle(W, "fifo")
             W1 == [W EXCEPT !.heap[hi] = AllocatedFifo(inFifoType, inNumElem,
                                                        inDataType, deviceHandle),
                             !.mem[inFifoHandle] = hi]
             ho == NewHandle(W1, "fifo") IN
         Logged([W1 EXCEPT !.heap[ho] = AllocatedFifo(outFifoType, outNumElem,
                                                      outDataType, deviceHandle),
                           !.mem[outFifoHandle] = ho,
                           !.heap[graphHandle].state = "allocated"],
                "ncGraphAllocateWithFifosEx", args, status)
    ELSE Logged(W, "ncGraphAllocateWithFifosEx", args, status)

ncGraphDestroy(W, graphHandle, e) ==
    Destroy(W, "ncGraphDestroy", "graph", [graphHandle |-> graphHandle],
            graphHandle, e)

(***************************************************************************)
(* Stand-in driver: FIFO calls.  A FIFO echoes: what is written to a handle *)
(* is read back from it, oldest first.                                      *)
(***************************************************************************)
Allocated(W, fifoHandle) ==
    Kind(W, fifoHandle) = "fifo" /\ Obj(W, fifoHandle).state = "allocated"

ncFifoCreate(W, name, type, fifoHandle) ==
    LET args == [name |-> name, type |-> type, fifoHandle |-> fifoHandle]
        status == CASE name = "" -> "NC_INVALID_PARAMETERS"
                    [] FreeHandles(W, "fifo") = {} -> "NC_OUT_OF_MEMORY"
                    [] OTHER -> "NC_OK" IN
    IF status = "NC_OK"
    THEN LET h == NewHandle(W, "fifo") IN
         Logged([W EXCEPT !.heap[h] = [kind |-> "fifo", state |-> "created",
                                       type |-> type],
                          !.mem[fifoHandle] = h],
                "ncFifoCreate", args, status)
    ELSE Logged(W, "ncFifoCreate", args, status)

ncFifoAllocate(W, fifoHandle, deviceHandle, tensorDesc, numElem) ==
    LET args == [fifoHandle |-> fifoHandle, deviceHandle |-> deviceHandle,
                 tensorDesc |-> tensorDesc, numElem |-> numElem]
        status == CASE Kind(W, fifoHandle) # "fifo" -> "NC_INVALID_HANDLE"
                    [] Kind(W, deviceHandle) # "device" -> "NC_INVALID_HANDLE"
                    [] ~Opened(W, deviceHandle) -> "NC_DEVICE_NOT_FOUND"
                    [] Allocated(W, fifoHandle) -> "NC_INVALID_PARAMETERS"
                    [] numElem <= 0 -> "NC_INVALID_PARAMETERS"
                    [] OTHER -> "NC_OK" IN
    IF status = "NC_OK"
    THEN Logged([W EXCEPT !.heap[fifoHandle] =
                     AllocatedFifo(@.type, numElem, "NC_FIFO_FP32", deviceHandle)],
                "ncFifoAllocate", args, status)
    ELSE Logged(W, "ncFifoAllocate", args, status)

ncFifoGetOption(W, fifoHandle, option, data, dataLength) ==
    LET args == [fifoHandle |-> fifoHandle, option |-> option,
                 data |-> data, dataLength |-> dataLength,
                 lengthOnEntry |-> W.mem[dataLength]] IN
    GetOption(W, "ncFifoGetOption", args, Allocated(W, fifoHandle), option,
              IF Allocated(W, fifoHandle) THEN Obj(W, fifoHandle).numElem ELSE 0,
              data, dataLength)

ncFifoWriteElem(W, fifoHandle, inputTensor, inputTensorLength, userParam) ==
    LET args == [fifoHandle |-> fifoHandle, inputTensor |-> inputTensor,
                 inputTensorLength |-> inputTensorLength, userParam |-> userParam]
        o == Obj(W, fifoHandle)
        status == CASE o.kind # "fifo" -> "NC_INVALID_HANDLE"
                    [] o.state # "allocated" -> "NC_NOT_ALLOCATED"
                    [] W.mem[inputTensorLength] # Len(inputTensor) ->
                            "NC_INVALID_DATA_LENGTH"
                    [] Len(o.queue) >= o.numElem -> "NC_BUSY"
                    [] OTHER -> "NC_OK" IN
    IF status = "NC_OK"
    THEN Logged([W EXCEPT !.heap[fifoHandle].queue =
                     Append(@, [tensor |-> inputTensor, user |-> userParam])],
                "ncFifoWriteElem", args, status)
    ELSE Logged(W, "ncFifoWriteElem", args, status)

ncFifoReadElem(W, fifoHandle, outputData, outputDataLen, userParam) ==
    LET args == [fifoHandle |-> fifoHandle, outputData |-> outputData,
                 outputDataLen |-> outputDataLen, userParam |-> userParam]
        o == Obj(W, fifoHandle)
        status == CASE o.kind # "fifo" -> "NC_INVALID_HANDLE"
                    [] o.state # "allocated" -> "NC_NOT_ALLOCATED"
                    [] o.queue = <<>> -> "NC_TIMEOUT"
                    [] W.mem[outputDataLen] < Len(Head(o.queue).tensor) ->
                            "NC_INVALID_DATA_LENGTH"
                    [] OTHER -> "NC_OK" IN
    IF status = "NC_OK"
    THEN Logged([W EXCEPT !.heap[fifoHandle].queue = Tail(@),
                          !.mem[outputData] = Head(o.queue).tensor,
                          !.mem[outputDataLen] = Len(Head(o.queue).tensor),
                          !.mem[userParam] = Head(o.queue).user],
                "ncFifoReadElem", args, status)
    ELSE Logged(W, "ncFifoReadElem", args, status)

ncFifoDestroy(W, fifoHandle, e) ==
    Destroy(W, "ncFifoDestroy", "fifo", [fifoHandle |-> fifoHandle],
            fifoHandle, e)

\* a facade that reports every failure as NC_ERROR
Return_Collapsed(R) ==
    [mem |-> R.mem, heap |-> R.heap, calls |-> R.calls,
     ret |-> IF R.status = "NC_OK" THEN 0 ELSE -2]

(***************************************************************************)
(* Facade (src/ncs.cpp): each function casts its arguments, makes the       *)
(* driver call and returns int(s).                                          *)
(***************************************************************************)
Return(R) == [mem |-> R.mem, heap |-> R.heap, calls |-> R.calls,
              ret |-> int(R.status)]

\* a facade that takes idx as one-based
ncs_DeviceCreate_OneBased(W, idx, deviceHandle) ==
    Return(ncDeviceCreate(W, idx + 1, deviceHandle))

ncs_DeviceCreate(W, idx, deviceHandle) ==
    Return(ncDeviceCreate(W, idx, deviceHandle))

ncs_DeviceOpen(W, deviceHandle) ==
    Return(ncDeviceOpen(W, deviceHandle))

\* a facade that hands the driver a copy of the length
ncs_DeviceGetOption_LengthByValue(W, deviceHandle, option, data, dataLength) ==
    LET R == Return(ncDeviceGetOption(W, deviceHandle, option, data, dataLength)) IN
    [R EXCEPT !.mem[dataLength] = W.mem[dataLength]]

\* declared in src/ncs.h, not defined in src/ncs.cpp
ncs_DeviceGetOption(W, deviceHandle, option, data, dataLength) ==
    Return(ncDeviceGetOption(W, deviceHandle, option, data, dataLength))

\* a facade that treats a close of a device that is not open as done
ncs_DeviceClose_Lenient(W, deviceHandle) ==
    LET R == Return(ncDeviceClose(W, deviceHandle)) IN
    IF Opened(W, deviceHandle) THEN R ELSE [R EXCEPT !.ret = 0]

ncs_DeviceClose(W, deviceHandle) ==
    Return(ncDeviceClose(W, deviceHandle))

ncs_DeviceDestroy(W, deviceHandle, e) ==
    Return(ncDeviceDestroy(W, deviceHandle, e))

ncs_GraphCreate(W, name, graphHandle) ==
    Return(ncGraphCreate(W, name, graphHandle))

ncs_GraphAllocate(W, deviceHandle, graphHandle, graphBuffer, graphBufferLength) ==
    Return(ncGraphAllocate(W, deviceHandle, graphHandle, graphBuffer,
                           graphBufferLength))

ncs_GraphAllocateWithFifosEx(W, deviceHandle, graphHandle, graphBuffer, graphBufferLength, inFifoHandle, inFifoType, inNumElem, inDataType, outFifoHandle, outFifoType, outNumElem, outDataType) ==
    Return(ncGraphAllocateWithFifosEx(W, deviceHandle, graphHandle, graphBuffer,
                                      graphBufferLength,
                                      inFifoHandle, inFifoType, inNumElem, inDataType,
                                      outFifoHandle, outFifoType, outNumElem,
                                      outDataType))

\* a facade whose default FIFOs hold one element
ncs_GraphAllocateWithFifos_OneElem(W, deviceHandle, graphHandle, graphBuffer, graphBufferLength, inFifoHandle, outFifoHandle) ==
    ncs_GraphAllocateWithFifosEx(W, deviceHandle, graphHandle, graphBuffer,
                                 graphBufferLength,
                                 inFifoHandle, "NC_FIFO_HOST_WO", 1, "NC_FIFO_FP32",
                                 outFifoHandle, "NC_FIFO_HOST_RO", 1, "NC_FIFO_FP32")

ncs_GraphAllocateWithFifos(W, deviceHandle, graphHandle, graphBuffer, graphBufferLength, inFifoHandle, outFifoHandle) ==
    ncs_GraphAllocateWithFifosEx(W, deviceHandle, graphHandle, graphBuffer,
                                 graphBufferLength,
                                 inFifoHandle, "NC_FIFO_HOST_WO", 2, "NC_FIFO_FP32",
                                 outFifoHandle, "NC_FIFO_HOST_RO", 2, "NC_FIFO_FP32")

\* a facade that hands the driver a copy of the caller's reference
ncs_GraphDestroy_ByValue(W, graphHandle, e) ==
    LET R == Return(ncGraphDestroy(W, graphHandle, e)) IN
    [R EXCEPT !.mem[graphHandle] = W.mem[graphHandle]]

ncs_GraphDestroy(W, graphHandle, e) ==
    Return(ncGraphDestroy(W, graphHandle, e))

ncs_FifoCreate(W, name, type, fifoHandle) ==
    Return(ncFifoCreate(W, name, type, fifoHandle))

\* a facade that passes the device handle first and the FIFO handle second
ncs_FifoAllocate_Swapped(W, fifoHandle, deviceHandle, tensorDesc, numElem) ==
    Return(ncFifoAllocate(W, deviceHandle, fifoHandle, tensorDesc, numElem))

ncs_FifoAllocate(W, fifoHandle, deviceHandle, tensorDesc, numElem) ==
    Return(ncFifoAllocate(W, fifoHandle, deviceHandle, tensorDesc, numElem))

\* the members of the OptionsData structure at address p
OptionsData(p) == [data |-> p \o ".data", length |-> p \o ".length"]

\* a facade that hands the driver a copy of the structure's length
ncs_FifoGetOption_LengthByValue(W, fifoHandle, option, optionsData) ==
    LET R == Return(ncFifoGetOption(W, fifoHandle, option, optionsData \o ".data",
                                    optionsData \o ".length")) IN
    [R EXCEPT !.mem[optionsData \o ".length"] = W.mem[optionsData \o ".length"]]

ncs_FifoGetOption(W, fifoHandle, option, optionsData) ==
    Return(ncFifoGetOption(W, fifoHandle, option, OptionsData(optionsData).data,
                           OptionsData(optionsData).length))

\* a facade that writes the element again when the first write succeeded
ncs_FifoWriteElem_Twice(W, fifoHandle, inputTensor, inputTensorLength, userParam) ==
    LET R == ncFifoWriteElem(W, fifoHandle, inputTensor, inputTensorLength,
                             userParam) IN
    IF R.status = "NC_OK"
    THEN Return(ncFifoWriteElem(R, fifoHandle, inputTensor, inputTensorLength,
                                userParam))
    ELSE Return(R)

ncs_FifoWriteElem(W, fifoHandle, inputTensor, inputTensorLength, userParam) ==
    Return(ncFifoWriteElem(W, fifoHandle, inputTensor, inputTensorLength,
                           userParam))

ncs_FifoReadElem(W, fifoHandle, outputData, outputDataLen, userParam) ==
    Return(ncFifoReadElem(W, fifoHandle, outputData, outputDataLen, userParam))

\* a facade that destroys again when the driver reports a failure
ncs_FifoDestroy_Retry(W, fifoHandle, e) ==
    LET R == ncFifoDestroy(W, fifoHandle, e) IN
    IF R.status = "NC_OK" THEN Return(R)
    ELSE Return(ncFifoDestroy(R, fifoHandle, e))

ncs_FifoDestroy(W, fifoHandle, e) ==
    Return(ncFifoDestroy(W, fifoHandle, e))

(***************************************************************************)
(* State.                                                                   *)
(***************************************************************************)
VARIABLES
    mem,    \* the caller's handle references: RefAddrs -> handle or NULL
    heap,   \* the driver's handle table: Handles -> object
    unread, \* per FIFO handle, what the caller wrote and has not read back
    last    \* the last facade call: arguments, result, buffers, driver calls

vars == <<mem, heap, unread, last>>

\* the world a call starts in: the references, the buffers set up for the call
World(locals) ==
    [mem |-> [a \in Addrs |-> IF a \in RefAddrs THEN mem[a] ELSE locals[a]],
     heap |-> heap, calls |-> <<>>, status |-> "NC_OK"]
W0 == World(NoLocals)

\* kind and state of the object behind handle h before the call
Pre(h) ==
    LET o == Obj(W0, h) IN
    [h |-> h, kind |-> o.kind,
     state |-> IF o.kind = "free" THEN "none" ELSE o.state,
     unread |-> IF h \in Handles THEN unread[h] ELSE <<>>]
OK(R) == R.ret = 0

Init ==
    /\ mem = [a \in RefAddrs |-> NULL]
    /\ heap = [h \in Handles |-> Free]
    /\ unread = [h \in Handles |-> <<>>]
    /\ last = [op |-> "none", args |-> [none |-> 0], ret |-> 0, calls |-> <<>>,
               pre |-> Pre(NULL), out |-> NoLocals]

\* a facade call returns: the caller sees its memory as the call left it
Call(op, args, pre, R, H) ==
    /\ mem' = [a \in RefAddrs |-> R.mem[a]]
    /\ heap' = R.heap
    /\ unread' = H
    /\ last' = [op |-> op, args |-> args, ret |-> R.ret, calls |-> R.calls,
                pre |-> pre, out |-> [a \in LocalAddrs |-> R.mem[a]]]

(***************************************************************************)
(* What the caller passes.                                                  *)
(***************************************************************************)
Indices == 0..NumDevices
GraphNames == {"", "graph"}
FifoNames == {"", "fifo"}
GraphBuffers == {<<>>, <<1, 2>>}
TensorDescs == {[n |-> 1, c |-> 1, w |-> 1, h |-> 1]}
NumElems == {0, 2}
Options == {0, 1}
Lengths == {1, DataCap}
FifoConfigs ==
    { [inFifoType |-> "NC_FIFO_HOST_WO", inNumElem |-> 1, inDataType |-> "NC_FIFO_FP16",
       outFifoType |-> "NC_FIFO_HOST_RO", outNumElem |-> 1, outDataType |-> "NC_FIFO_FP32"],
      [inFifoType |-> "NC_FIFO_HOST_RO", inNumElem |-> 2, inDataType |-> "NC_FIFO_FP32",
       outFifoType |-> "NC_FIFO_HOST_WO", outNumElem |-> 0, outDataType |-> "NC_FIFO_FP16"] }

(***************************************************************************)
(* Device calls.                                                            *)
(***************************************************************************)
DeviceCreate ==
    \E idx \in Indices :
        /\ mem["deviceHandle"] = NULL
        /\ Call("ncs_DeviceCreate", [idx |-> idx, deviceHandle |-> "deviceHandle"],
                Pre(mem["deviceHandle"]),
                ncs_DeviceCreate(W0, idx, "deviceHandle"), unread)

DeviceOpen ==
    Call("ncs_DeviceOpen", [deviceHandle |-> mem["deviceHandle"]],
             Pre(mem["deviceHandle"]),
             ncs_DeviceOpen(W0, mem["deviceHandle"]), unread)

DeviceGetOption ==
    \E option \in Options, len \in Lengths :
        LET W == World([NoLocals EXCEPT !["optionsData.length"] = len]) IN
        Call("ncs_DeviceGetOption",
             [deviceHandle |-> mem["deviceHandle"], option |-> option,
              data |-> "optionsData.data", dataLength |-> "optionsData.length",
              lengthOnEntry |-> len],
             Pre(mem["deviceHandle"]),
             ncs_DeviceGetOption(W, mem["deviceHandle"], option,
                                 "optionsData.data", "optionsData.length"),
             unread)

DeviceClose ==
    Call("ncs_DeviceClose", [deviceHandle |-> mem["deviceHandle"]],
             Pre(mem["deviceHandle"]),
             ncs_DeviceClose(W0, mem["deviceHandle"]), unread)

DeviceDestroy ==
    \E e \in Outcomes :
        Call("ncs_DeviceDestroy", [deviceHandle |-> "deviceHandle"],
             Pre(mem["deviceHandle"]),
             ncs_DeviceDestroy(W0, "deviceHandle", e), unread)

(***************************************************************************)
(* Graph calls.                                                             *)
(***************************************************************************)
GraphCreate ==
    \E name \in GraphNames :
        /\ mem["graphHandle"] = NULL
        /\ Call("ncs_GraphCreate", [name |-> name, graphHandle |-> "graphHandle"],
                Pre(mem["graphHandle"]),
                ncs_GraphCreate(W0, name, "graphHandle"), unread)

GraphAllocate ==
    \E buf \in GraphBuffers :
        Call("ncs_GraphAllocate",
             [deviceHandle |-> mem["deviceHandle"], graphHandle |-> mem["graphHandle"],
              graphBuffer |-> buf, graphBufferLength |-> Len(buf)],
             Pre(mem["graphHandle"]),
             ncs_GraphAllocate(W0, mem["deviceHandle"], mem["graphHandle"],
                               buf, Len(buf)),
             unread)

\* the FIFOs a call created have nothing written to them yet
NewFifos(R) ==
    [h \in Handles |->
        IF OK(R) /\ h \in {R.mem["inFifoHandle"], R.mem["outFifoHandle"]}
               /\ h \notin {mem["inFifoHandle"], mem["outFifoHandle"]}
        THEN <<>> ELSE unread[h]]

GraphAllocateWithFifos ==
    \E buf \in GraphBuffers :
        LET R == ncs_GraphAllocateWithFifos(W0, mem["deviceHandle"],
                     mem["graphHandle"], buf, Len(buf),
                     "inFifoHandle", "outFifoHandle") IN
        /\ mem["inFifoHandle"] = NULL /\ mem["outFifoHandle"] = NULL
        /\ Call("ncs_GraphAllocateWithFifos",
                [deviceHandle |-> mem["deviceHandle"],
                 graphHandle |-> mem["graphHandle"],
                 graphBuffer |-> buf, graphBufferLength |-> Len(buf),
                 inFifoHandle |-> "inFifoHandle", outFifoHandle |-> "outFifoHandle"],
                Pre(mem["graphHandle"]), R, NewFifos(R))

GraphAllocateWithFifosEx ==
    \E buf \in GraphBuffers, c \in FifoConfigs :
        LET R == ncs_GraphAllocateWithFifosEx(W0, mem["deviceHandle"],
                     mem["graphHandle"], buf, Len(buf),
                     "inFifoHandle", c.inFifoType, c.inNumElem, c.inDataType,
                     "outFifoHandle", c.outFifoType, c.outNumElem, c.outDataType) IN
        /\ mem["inFifoHandle"] = NULL /\ mem["outFifoHandle"] = NULL
        /\ Call("ncs_GraphAllocateWithFifosEx",
                [deviceHandle |-> mem["deviceHandle"],
                 graphHandle |-> mem["graphHandle"],
                 graphBuffer |-> buf, graphBufferLength |-> Len(buf),
                 inFifoHandle |-> "inFifoHandle", inFifoType |-> c.inFifoType,
                 inNumElem |-> c.inNumElem, inDataType |-> c.inDataType,
                 outFifoHandle |-> "outFifoHandle", outFifoType |-> c.outFifoType,
                 outNumElem |-> c.outNumElem, outDataType |-> c.outDataType],
                Pre(mem["graphHandle"]), R, NewFifos(R))

GraphDestroy ==
    \E e \in Outcomes :
        Call("ncs_GraphDestroy", [graphHandle |-> "graphHandle"],
             Pre(mem["graphHandle"]),
             ncs_GraphDestroy(W0, "graphHandle", e), unread)

(***************************************************************************)
(* FIFO calls.  The caller creates and allocates a FIFO of its own through  *)
(* inFifoHandle; every other FIFO call is made on either reference.         *)
(***************************************************************************)
FifoCreate ==
    \E a \in {"inFifoHandle"}, name \in FifoNames, type \in ncFifoType_t :
        LET R == ncs_FifoCreate(W0, name, type, a) IN
        /\ mem[a] = NULL
        /\ Call("ncs_FifoCreate", [name |-> name, type |-> type, fifoHandle |-> a],
                Pre(mem[a]), R, NewFifos(R))

FifoAllocate ==
    \E a \in {"inFifoHandle"}, td \in TensorDescs, numElem \in NumElems :
        Call("ncs_FifoAllocate",
             [fifoHandle |-> mem[a], deviceHandle |-> mem["deviceHandle"],
              tensorDesc |-> td, numElem |-> numElem],
             Pre(mem[a]),
             ncs_FifoAllocate(W0, mem[a], mem["deviceHandle"], td, numElem),
             unread)

FifoGetOption ==
    \E a \in FifoAddrs, option \in Options, len \in Lengths :
        LET W == World([NoLocals EXCEPT !["optionsData.length"] = len]) IN
        Call("ncs_FifoGetOption",
             [fifoHandle |-> mem[a], option |-> option,
              optionsData |-> "optionsData", lengthOnEntry |-> len],
             Pre(mem[a]),
             ncs_FifoGetOption(W, mem[a], option, "optionsData"), unread)

FifoWriteElem ==
    \E a \in FifoAddrs, el \in Elems :
        LET W == World([NoLocals EXCEPT !["inputTensorLength"] = Len(el.tensor)])
            R == ncs_FifoWriteElem(W, mem[a], el.tensor, "inputTensorLength",
                                   el.user) IN
        Call("ncs_FifoWriteElem",
             [fifoHandle |-> mem[a], inputTensor |-> el.tensor,
              inputTensorLength |-> "inputTensorLength", userParam |-> el.user],
             Pre(mem[a]), R,
             IF OK(R) /\ mem[a] \in Handles
             THEN [unread EXCEPT ![mem[a]] = Append(@, el)] ELSE unread)

FifoReadElem ==
    \E a \in FifoAddrs :
        LET W == World([NoLocals EXCEPT !["outputDataLen"] = 1])
            R == ncs_FifoReadElem(W, mem[a], "outputData", "outputDataLen",
                                  "userParam") IN
        Call("ncs_FifoReadElem",
             [fifoHandle |-> mem[a], outputData |-> "outputData",
              outputDataLen |-> "outputDataLen", userParam |-> "userParam"],
             Pre(mem[a]), R,
             IF OK(R) /\ mem[a] \in Handles /\ unread[mem[a]] # <<>>
             THEN [unread EXCEPT ![mem[a]] = Tail(@)] ELSE unread)

FifoDestroy ==
    \E a \in FifoAddrs, e \in Outcomes :
        LET R == ncs_FifoDestroy(W0, a, e) IN
        Call("ncs_FifoDestroy", [fifoHandle |-> a], Pre(mem[a]), R,
             IF OK(R) /\ mem[a] \in Handles
             THEN [unread EXCEPT ![mem[a]] = <<>>] ELSE unread)

Next ==
    \/ DeviceCreate
    \/ DeviceOpen
    \/ DeviceGetOption
    \/ DeviceClose
    \/ DeviceDestroy
    \/ GraphCreate
    \/ GraphAllocate
    \/ GraphAllocateWithFifos
    \/ GraphAllocateWithFifosEx
    \/ GraphDestroy
    \/ FifoCreate
    \/ FifoAllocate
    \/ FifoGetOption
    \/ FifoWriteElem
    \/ FifoReadElem
    \/ FifoDestroy

Spec == Init /\ [][Next]_vars

(***************************************************************************)
(* Properties.                                                              *)
(***************************************************************************)
\* the driver call each facade function delegates to
Delegate ==
    [ ncs_DeviceCreate |-> "ncDeviceCreate", ncs_DeviceOpen |-> "ncDeviceOpen",
      ncs_DeviceGetOption |-> "ncDeviceGetOption",
      ncs_DeviceClose |-> "ncDeviceClose", ncs_DeviceDestroy |-> "ncDeviceDestroy",
      ncs_GraphCreate |-> "ncGraphCreate", ncs_GraphAllocate |-> "ncGraphAllocate",
      ncs_GraphAllocateWithFifos |-> "ncGraphAllocateWithFifosEx",
      ncs_GraphAllocateWithFifosEx |-> "ncGraphAllocateWithFifosEx",
      ncs_GraphDestroy |-> "ncGraphDestroy", ncs_FifoCreate |-> "ncFifoCreate",
      ncs_FifoAllocate |-> "ncFifoAllocate", ncs_FifoGetOption |-> "ncFifoGetOption",
      ncs_FifoWriteElem |-> "ncFifoWriteElem", ncs_FifoReadElem |-> "ncFifoReadElem",
      ncs_FifoDestroy |-> "ncFifoDestroy" ]

Called == last.op # "none"
Was(op) == last.op = op
\* the driver call behind the value the facade returned
DriverCall == last.calls[Len(last.calls)]
Succeeded == last.ret = 0

\* C1: whatever status the driver returned for a call, success or not, the
\* facade returns that status's integer value for that call.
C1_StatusPassThrough ==
    Called => /\ last.calls # <<>>
              /\ DriverCall.status \in StatusNames
              /\ last.ret = ncStatus_t[DriverCall.status]

\* a write to a full FIFO came back as the driver's NC_BUSY (-1)
C1_Witness ==
    /\ Was("ncs_FifoWriteElem")
    /\ DriverCall.status = "NC_BUSY"
    /\ last.ret = -1

\* the driver call ncs_GraphAllocateWithFifosEx makes for the documented
\* defaults, from the world w
WithDefaults(w, a) ==
    ncs_GraphAllocateWithFifosEx(w, a.deviceHandle, a.graphHandle, a.graphBuffer,
                                 a.graphBufferLength,
                                 a.inFifoHandle, "NC_FIFO_HOST_WO", 2, "NC_FIFO_FP32",
                                 a.outFifoHandle, "NC_FIFO_HOST_RO", 2, "NC_FIFO_FP32")

\* C2: a call of ncs_GraphAllocateWithFifos leaves the caller's references and
\* the driver as ncs_GraphAllocateWithFifosEx would, called with the same
\* device, graph, buffer, length and FIFO references and with host-write-only,
\* 2, FP32 for the input FIFO and host-read-only, 2, FP32 for the output FIFO,
\* and returns what it would return.
C2_DefaultsAsEx ==
    [][ last'.op = "ncs_GraphAllocateWithFifos" =>
          LET R == WithDefaults(W0, last'.args) IN
          /\ mem' = [a \in RefAddrs |-> R.mem[a]]
          /\ heap' = R.heap
          /\ last'.ret = R.ret
          /\ last'.calls = R.calls ]_vars

\* the default call succeeded and both FIFOs hold 2 elements of FP32
C2_Witness ==
    /\ Was("ncs_GraphAllocateWithFifos") /\ Succeeded
    /\ heap[mem["inFifoHandle"]] =
          AllocatedFifo("NC_FIFO_HOST_WO", 2, "NC_FIFO_FP32", mem["deviceHandle"])
    /\ heap[mem["outFifoHandle"]] =
          AllocatedFifo("NC_FIFO_HOST_RO", 2, "NC_FIFO_FP32", mem["deviceHandle"])

DestroyOf ==
    [ ncs_DeviceDestroy |-> [kind |-> "device", ref |-> "deviceHandle"],
      ncs_GraphDestroy |-> [kind |-> "graph", ref |-> "graphHandle"],
      ncs_FifoDestroy |-> [kind |-> "fifo", ref |-> "fifoHandle"] ]
IsDestroy == last.op \in DOMAIN DestroyOf
\* the last call was a destroy on a reference to a live handle of its kind
DestroyedLive == IsDestroy /\ last.pre.kind = DestroyOf[last.op].kind

\* C3: after a destroy on a reference to a live handle, the reference is null
\* and no reference of the caller holds the destroyed handle.
C3_DestroyNullsReference ==
    DestroyedLive =>
        /\ mem[last.args[DestroyOf[last.op].ref]] = NULL
        /\ \A a \in RefAddrs : mem[a] # last.pre.h

\* a live graph handle was destroyed
C3_Witness ==
    /\ DestroyedLive /\ Was("ncs_GraphDestroy")
    /\ last.pre.h \in Pool("graph")
    /\ mem["graphHandle"] = NULL

\* the element a read handed back to the caller
ReadBack == [tensor |-> last.out["outputData"], user |-> last.out["userParam"]]
LiveFifos == {mem[a] : a \in FifoAddrs} \ {NULL}

\* C4: the driver's queue of every allocated FIFO holds exactly the elements
\* the caller wrote and has not read back, oldest first, and a read returns the
\* oldest of them with its user tag (and fails only when there is none): N
\* reads after N writes return the N elements in the order written.
C4_FifoOrderPreserved ==
    /\ \A h \in LiveFifos :
          heap[h].state = "allocated" => heap[h].queue = unread[h]
    /\ Was("ncs_FifoReadElem") /\ last.pre.state = "allocated" =>
          IF last.pre.unread = <<>>
          THEN ~Succeeded
          ELSE /\ Succeeded
               /\ ReadBack = Head(last.pre.unread)
               /\ last.out["outputDataLen"] = Len(ReadBack.tensor)
               /\ unread[last.pre.h] = Tail(last.pre.unread)

\* two different elements were written and a read returned the first of them
C4_Witness ==
    /\ Was("ncs_FifoReadElem") /\ Succeeded
    /\ Len(last.pre.unread) = 2
    /\ last.pre.unread[1] # last.pre.unread[2]
    /\ ReadBack = last.pre.unread[1]
    /\ unread[last.pre.h] = <<last.pre.unread[2]>>

\* C5: a close of a device that was opened and then closed returns the
\* driver's non-success status as its result and leaves the device as it was.
C5_SecondCloseReturnsError ==
    Was("ncs_DeviceClose") /\ last.pre.kind = "device" /\ last.pre.state = "closed" =>
        /\ ~Succeeded
        /\ last.ret = ncStatus_t[DriverCall.status]
        /\ mem["deviceHandle"] = last.pre.h
        /\ heap[last.pre.h] = [kind |-> "device", state |-> "closed"]

\* the second close came back with NC_INVALID_PARAMETERS (-5)
C5_Witness ==
    /\ Was("ncs_DeviceClose") /\ last.pre.state = "closed"
    /\ last.ret = -5

ValidIndex(idx) == idx \in 0..(NumDevices - 1)

\* C6: a create with a valid index returns success and fills the reference
\* with a live device handle; a destroy on that reference returns success,
\* nulls it and leaves the driver without a device handle.
C6_CreateThenDestroy ==
    /\ Was("ncs_DeviceCreate") /\ ValidIndex(last.args.idx) =>
          /\ Succeeded
          /\ mem["deviceHandle"] \in Pool("device")
          /\ heap[mem["deviceHandle"]] = [kind |-> "device", state |-> "created"]
    /\ Was("ncs_DeviceDestroy") /\ last.pre.kind = "device" =>
          /\ Succeeded
          /\ mem["deviceHandle"] = NULL
          /\ \A h \in Pool("device") : heap[h] = Free

\* a device that was created and not opened was destroyed
C6_Witness ==
    /\ Was("ncs_DeviceDestroy") /\ Succeeded
    /\ last.pre.kind = "device" /\ last.pre.state = "created"
    /\ mem["deviceHandle"] = NULL

\* C7: ncs_DeviceGetOption makes the driver's device get-option call with the
\* handle, the option, the buffer and the length it was given, returns its
\* status, and on success the buffer holds the option's bytes and the length
\* is the number of bytes written.
C7_DeviceGetOption ==
    Was("ncs_DeviceGetOption") =>
        /\ Len(last.calls) = 1
        /\ DriverCall.fn = "ncDeviceGetOption"
        /\ DriverCall.args = last.args
        /\ last.ret = ncStatus_t[DriverCall.status]
        /\ DriverCall.status \in {"NC_OK", "NC_INVALID_DATA_LENGTH"} =>
              last.out["optionsData.length"] = ValLen
        /\ Succeeded =>
              last.out["optionsData.data"] =
                  Written(Zeros, ValueBytes(DeviceStateCode(heap[last.pre.h])))

\* the state of an opened device was read into a larger buffer
C7_Witness ==
    /\ Was("ncs_DeviceGetOption") /\ Succeeded
    /\ last.args.lengthOnEntry = DataCap
    /\ last.out["optionsData.length"] = ValLen
    /\ last.out["optionsData.data"][1] = 2

C9_ExactlyOneDriverCall ==
    Called => /\ Len(last.calls) = 1
              /\ last.calls[1].fn = Delegate[last.op]

\* a destroy the driver refused was not tried again
C9_Witness ==
    /\ Was("ncs_FifoDestroy") /\ ~Succeeded
    /\ Len(last.calls) = 1

\* the arguments the facade function got that the driver call has too
Forwarded == DOMAIN last.args \ {"optionsData"}

\* C10: the driver receives every argument of a facade call unchanged, under
\* the parameter of the same meaning: handles are not exchanged for one
\* another and the input and output FIFO parameters stay on their sides.
C10_ArgumentsForwarded ==
    Called =>
        /\ last.calls # <<>>
        /\ Forwarded \subseteq DOMAIN last.calls[1].args
        /\ \A k \in Forwarded : last.calls[1].args[k] = last.args[k]
        /\ Was("ncs_FifoAllocate") /\ Succeeded =>
              /\ heap[last.args.fifoHandle].kind = "fifo"
              /\ heap[last.args.fifoHandle].dev = last.args.deviceHandle
        /\ Was("ncs_GraphAllocateWithFifosEx") /\ Succeeded =>
              /\ heap[mem["inFifoHandle"]] =
                    AllocatedFifo(last.args.inFifoType, last.args.inNumElem,
                                  last.args.inDataType, last.args.deviceHandle)
              /\ heap[mem["outFifoHandle"]] =
                    AllocatedFifo(last.args.outFifoType, last.args.outNumElem,
                                  last.args.outDataType, last.args.deviceHandle)

\* a FIFO was allocated on the caller's device
C10_Witness ==
    /\ Was("ncs_FifoAllocate") /\ Succeeded
    /\ last.calls[1].args.fifoHandle \in Pool("fifo")
    /\ last.calls[1].args.deviceHandle \in Pool("device")

=============================================================================
